---- MODULE Spec2Model ----
(***************************************************************************)
(* Model of script.js: the music survey form.                              *)
(*                                                                         *)
(* One browser holds one localStorage, shared by every page (tab) of the   *)
(* survey.  Each page runs the DOMContentLoaded handler once per document, *)
(* then reacts to submit events, fetch settlements, the lockForm timeout   *)
(* and the timeupdate / ended events of its audio elements.  Every handler *)
(* runs to completion, so every handler is one action; the await on fetch  *)
(* splits the submit handler in two actions.                               *)
(*                                                                         *)
(* Strings are sequences of tokens: a key is the sequence of the pieces    *)
(* its template literal concatenates, a value is a sequence of characters. *)
(***************************************************************************)
EXTENDS Integers, Sequences, FiniteSets, TLC

(* ---------------------------- bounds ---------------------------------- *)
\* media positions are whole seconds 0..MaxTime
MaxTime == 1
\* fetch calls the browser makes in a run
MaxRequests == 2
\* boxes of each required checkbox group
NumBoxes == 1

\* the tabs of the survey open in the browser
Pages == {1, 2}
\* the audio elements in the markup of the page
Audios == {1, 2}
Times == 0..MaxTime
Boxes == 1..NumBoxes

(* ------------------------- strings and keys --------------------------- *)
\* script.js:20
STORAGE_PREFIX == <<"music_survey_">>

\* `${STORAGE_PREFIX}completed`
CompletedKey == STORAGE_PREFIX \o <<"completed">>

\* `${STORAGE_PREFIX}user_uuid`
UuidKey == STORAGE_PREFIX \o <<"user_uuid">>

\* `${STORAGE_PREFIX}audio_`
AudioPrefix == STORAGE_PREFIX \o <<"audio_">>

\* the value of a key that is not in storage (getItem returns null)
Null == <<"NULL">>

\* the string 'true'
TrueStr == <<"t", "r", "u", "e">>

\* JavaScript truthiness of a string-or-null: null and '' are falsy
Truthy(v) == v /= Null /\ v /= << >>

\* String.prototype.startsWith
StartsWith(s, prefix) ==
    /\ Len(s) >= Len(prefix)
    /\ SubSeq(s, 1, Len(prefix)) = prefix

\* the srcs an audio element of the markup can have: a URL is the sequence
\* of its '/'-separated segments, the empty sequence is a missing src
ClipA == <<"media", "a", "clip.mp3">>
ClipB == <<"media", "b", "clip.mp3">>
SongA == <<"media", "a", "song.mp3">>
NoSrc == << >>

\* src.substring(src.lastIndexOf('/') + 1)
FileName(src) == src[Len(src)]

\* `${STORAGE_PREFIX}audio_${fileName}`
StorageKey(src) == AudioPrefix \o <<FileName(src)>>

\* Number.prototype.toString for a whole number
Digit(d) == <<"0", "1", "2", "3", "4", "5", "6", "7", "8", "9">>[d + 1]

RECURSIVE NumToString(_)
NumToString(n) ==
    IF n < 10 THEN <<Digit(n)>>
    ELSE NumToString(n \div 10) \o <<Digit(n % 10)>>

\* parseFloat on a string of decimal digits
DigitValue(c) == CHOOSE d \in 0..9 : Digit(d) = c

RECURSIVE ParseFloat(_)
ParseFloat(s) ==
    IF Len(s) = 1 THEN DigitValue(s[1])
    ELSE 10 * ParseFloat(SubSeq(s, 1, Len(s) - 1)) + DigitValue(s[Len(s)])

(* ------------------------------ UUID ---------------------------------- *)
\* 'xxxxxxxx-xxxx-4xxx-yxxx-xxxxxxxxxxxx'
Template ==
    <<"x","x","x","x","x","x","x","x","-","x","x","x","x","-",
      "4","x","x","x","-","y","x","x","x","-",
      "x","x","x","x","x","x","x","x","x","x","x","x">>

\* v.toString(16)
Hex(v) ==
    <<"0","1","2","3","4","5","6","7","8","9","a","b","c","d","e","f">>[v + 1]

\* a replace callback that treats y like x
ReplaceChar_NoVariant(c, r) ==
    IF c = "x" \/ c = "y" THEN Hex(r) ELSE c

\* the replace callback: r is Math.random() * 16 | 0
ReplaceChar(c, r) ==
    IF c = "x" THEN Hex(r)
    ELSE IF c = "y" THEN Hex((r % 4) + 8)
    ELSE c

\* the identifier made from the random values rs (one per character)
GenUUID(rs) == [i \in 1..Len(Template) |-> ReplaceChar(Template[i], rs[i])]

\* the random streams Math.random can deliver in the model
RandomStreams ==
    { [i \in 1..Len(Template) |-> (i * k) % 16] : k \in {3, 5} }

(* ------------------------------ state --------------------------------- *)
VARIABLES
    storage,    \* localStorage: a function from the keys present to values
    audioSrc,   \* the markup: the src of each audio element
    page,       \* per page: the document's form, status and timer
    audio,      \* per page and audio element: currentTime and paused
    inflight,   \* per page: the fetch calls of its document not yet settled
    net         \* the network: fetch calls made, those resolved opaque,
                \* and the uuid fields the requests carried

vars == <<storage, audioSrc, page, audio, inflight, net>>

\* messages of showStatus
MsgNone == "none"
MsgCompleted == "already_completed"
MsgRequired == "fill_required"
MsgSubmitting == "submitting"
MsgSuccess == "success"
MsgFailed == "submit_failed"
MsgSoft == "choose_soft_relaxing"
MsgIntense == "choose_intense_emotional"

\* labels of the submit button
LabelProcessing == "processing"
LabelSubmit == "submit_survey"

\* the label the markup gives the submit button: the markup is not part of
\* script.js; the label is taken to be the one the catch block restores
LabelMarkup == LabelSubmit

\* a document that has just been parsed: the form as the markup gives it
FreshPage ==
    [ phase |-> "loading",
      btnDisabled |-> FALSE,
      btnText |-> LabelMarkup,
      inputsDisabled |-> FALSE,
      pointerEvents |-> "auto",
      status |-> MsgNone,
      statusClass |-> "",
      timer |-> FALSE,
      \* history: the completed flag was in storage when the document loaded
      loadedWithFlag |-> FALSE,
      \* history: a submission of this document has succeeded
      succeeded |-> FALSE ]

FreshAudio == [a \in Audios |-> [currentTime |-> 0, paused |-> TRUE]]

\* the markups of the model
Markups ==
    { <<ClipA, SongA>>, <<ClipA, ClipB>>, <<ClipA, NoSrc>> }

\* the audio elements that have a src
Sourced(m) == {a \in Audios : m[a] /= NoSrc}

\* the scenarios of the model: the markup and the tabs the user opens on
\* it, either one tab or a markup with one playable audio element
Scenarios ==
    { sc \in [markup : Markups, tabs : {{1}, {1, 2}}] :
        Cardinality(sc.tabs) = 1 \/ Cardinality(Sourced(sc.markup)) = 1 }

(* --------------------------- localStorage ----------------------------- *)
\* keys that other applications of the same origin keep in localStorage:
\* 'other_app_audio_clip.mp3' and 'music_survey_audio' (no final underscore)
ForeignKeys ==
    { <<"other_app_", "audio_", "clip.mp3">>, <<"music_survey_", "audio">> }

\* localStorage before the survey has run in the browser
InitialStorage == [k \in ForeignKeys |-> <<"1">>]

GetItem(st, k) == IF k \in DOMAIN st THEN st[k] ELSE Null

SetItem(st, k, v) == [x \in (DOMAIN st) \cup {k} |-> IF x = k THEN v ELSE st[x]]

RemoveItem(st, k) == [x \in (DOMAIN st) \ {k} |-> st[x]]

\* a clearSurveyStorage that calls localStorage.clear()
clearSurveyStorage_ClearAll(st) == [x \in {} |-> st[x]]

\* a clearSurveyStorage that tests the prefix music_survey_ alone
clearSurveyStorage_WholePrefix(st) ==
    [x \in {k \in DOMAIN st : ~StartsWith(k, STORAGE_PREFIX)} |-> st[x]]

\* clearSurveyStorage: remove every key that starts with music_survey_audio_
clearSurveyStorage(st) ==
    [x \in {k \in DOMAIN st : ~StartsWith(k, AudioPrefix)} |-> st[x]]

\* Math.random is called only when no identifier is stored: the streams a
\* call of getOrCreateUUID can draw from
RandomDraws(st) ==
    IF Truthy(GetItem(st, UuidKey))
    THEN {CHOOSE rs \in RandomStreams : TRUE}
    ELSE RandomStreams

\* a getOrCreateUUID that leaves out the setItem
getOrCreateUUID_NoStore(st, rs) ==
    LET uuid == GetItem(st, UuidKey) IN
    IF ~Truthy(uuid) THEN <<GenUUID(rs), st>> ELSE <<uuid, st>>

\* getOrCreateUUID: <<the identifier returned, the storage afterwards>>
getOrCreateUUID(st, rs) ==
    LET uuid == GetItem(st, UuidKey) IN
    IF ~Truthy(uuid)
    THEN <<GenUUID(rs), SetItem(st, UuidKey, GenUUID(rs))>>
    ELSE <<uuid, st>>

(* ------------------------------- UI ----------------------------------- *)
showStatus(pg, message, type) ==
    [pg EXCEPT !.status = message, !.statusClass = type]

\* a lockForm that disables the buttons of the form alone
lockForm_ButtonsOnly(pg) ==
    [pg EXCEPT !.btnDisabled = TRUE, !.pointerEvents = "none"]

\* lockForm: every input, button and textarea of the form is disabled
lockForm(pg) ==
    [pg EXCEPT !.btnDisabled = TRUE, !.inputsDisabled = TRUE,
               !.pointerEvents = "none"]

\* a checkIfSubmitted that shows the status and leaves the form unlocked
checkIfSubmitted_StatusOnly(pg, st) ==
    IF GetItem(st, CompletedKey) = TrueStr
    THEN showStatus(pg, MsgCompleted, "info")
    ELSE pg

\* checkIfSubmitted
checkIfSubmitted(pg, st) ==
    IF GetItem(st, CompletedKey) = TrueStr
    THEN showStatus(lockForm(pg), MsgCompleted, "info")
    ELSE pg

\* a validateCheckboxGroups whose loop stops after the first group
validateCheckboxGroups_FirstOnly(f) ==
    IF f.soft = {} THEN MsgSoft ELSE ""

\* validateCheckboxGroups: "" when every required group has a checked box,
\* else the message of the first group that has none
validateCheckboxGroups(f) ==
    IF f.soft = {} THEN MsgSoft
    ELSE IF f.intense = {} THEN MsgIntense
    ELSE ""

\* the sets of checked boxes of a group, up to the order of its boxes
CheckedSets == {1..k : k \in 0..NumBoxes}

\* what the user has put in the form when a submit event fires: the boxes
\* checked in each required group, and whether form.checkValidity() passes
FormInputs ==
    [soft : CheckedSets, intense : CheckedSets, valid : BOOLEAN]

\* every control of the form is disabled
Locked(p) == page[p].btnDisabled /\ page[p].inputsDisabled

(* ----------------------------- actions -------------------------------- *)
Init ==
    /\ storage = InitialStorage
    /\ \E sc \in Scenarios :
        /\ audioSrc = sc.markup
        /\ page = [p \in Pages |->
               IF p \in sc.tabs THEN FreshPage
               ELSE [FreshPage EXCEPT !.phase = "closed"]]
    /\ audio = [p \in Pages |-> FreshAudio]
    /\ inflight = [p \in Pages |-> 0]
    /\ net = [sent |-> 0, opaque |-> 0, uuids |-> {}]

\* initAudioPersistence, the part run at load: restore the saved position
RestoreAudio(st, a) ==
    LET src == audioSrc[a]
        savedTime == GetItem(st, StorageKey(src)) IN
    IF src = NoSrc THEN FreshAudio[a]
    ELSE IF Truthy(savedTime)
         THEN [FreshAudio[a] EXCEPT !.currentTime = ParseFloat(savedTime)]
         ELSE FreshAudio[a]

\* the DOMContentLoaded handler
Load(p) ==
    /\ page[p].phase = "loading"
    /\ page' = [page EXCEPT ![p] =
           [checkIfSubmitted(page[p], storage) EXCEPT
               !.phase = "ready",
               !.loadedWithFlag = (CompletedKey \in DOMAIN storage)]]
    /\ audio' = [audio EXCEPT ![p] = [a \in Audios |-> RestoreAudio(storage, a)]]
    /\ UNCHANGED <<storage, audioSrc, inflight, net>>

\* the user reloads the page: the document goes away with its timer and
\* its pending fetch; a new document is parsed
Unload(p) ==
    /\ page[p].phase = "ready"
    /\ page' = [page EXCEPT ![p] = FreshPage]
    /\ audio' = [audio EXCEPT ![p] = FreshAudio]
    /\ inflight' = [inflight EXCEPT ![p] = 0]
    /\ UNCHANGED <<storage, audioSrc, net>>

\* the browser fires submit only through an enabled submit button
CanSubmit(p) ==
    /\ page[p].phase = "ready"
    /\ ~page[p].btnDisabled
    /\ page[p].pointerEvents = "auto"

\* a handler that changes the label and leaves the button enabled
BeforeFetch_NoDisable(pg) ==
    [showStatus(pg, MsgSubmitting, "info") EXCEPT !.btnText = LabelProcessing]

\* the submit button is locked before fetch is called
BeforeFetch(pg) ==
    [showStatus(pg, MsgSubmitting, "info") EXCEPT
        !.btnDisabled = TRUE, !.btnText = LabelProcessing]

\* the submit handler up to the await
Submit(p, f) ==
    /\ CanSubmit(p)
    /\ IF validateCheckboxGroups(f) /= ""
       THEN /\ UNCHANGED <<storage, inflight, net>>
            /\ page' = [page EXCEPT ![p] =
                   showStatus(page[p], validateCheckboxGroups(f), "error")]
       ELSE IF ~f.valid
       THEN /\ UNCHANGED <<storage, inflight, net>>
            /\ page' = [page EXCEPT ![p] =
                   showStatus(page[p], MsgRequired, "error")]
       ELSE \E rs \in RandomDraws(storage) :
            LET got == getOrCreateUUID(storage, rs) IN
            /\ net.sent < MaxRequests
            /\ inflight' = [inflight EXCEPT ![p] = @ + 1]
            /\ net' = [net EXCEPT !.sent = @ + 1, !.uuids = @ \cup {got[1]}]
            /\ storage' = got[2]
            /\ page' = [page EXCEPT ![p] = BeforeFetch(page[p])]
    /\ UNCHANGED <<audioSrc, audio>>

\* a catch block that reports the error and leaves the button as it is
Catch_NoRestore(pg) == showStatus(pg, MsgFailed, "error")

\* the catch block
Catch(pg) ==
    showStatus([pg EXCEPT !.btnDisabled = FALSE, !.btnText = LabelSubmit],
               MsgFailed, "error")

\* the success branch: <<the page afterwards, the storage afterwards>>
OnOpaque(pg, st) ==
    << [showStatus(pg, MsgSuccess, "success") EXCEPT
           !.timer = TRUE, !.succeeded = TRUE],
       SetItem(clearSurveyStorage(st), CompletedKey, TrueStr) >>

ResponseTypes == {"opaque", "basic", "error"}

\* a test that takes every response but a network error for a success
IsOpaque_NotError(type) == type /= "error"

\* response.type === 'opaque'
IsOpaque(type) == type = "opaque"

\* fetch resolves: the rest of the submit handler
FetchResolve(p, type) ==
    /\ inflight[p] > 0
    /\ inflight' = [inflight EXCEPT ![p] = @ - 1]
    /\ IF IsOpaque(type)
       THEN /\ page' = [page EXCEPT ![p] = OnOpaque(page[p], storage)[1]]
            /\ storage' = OnOpaque(page[p], storage)[2]
            /\ net' = [net EXCEPT !.opaque = @ + 1]
       ELSE /\ page' = [page EXCEPT ![p] = Catch(page[p])]
            /\ UNCHANGED <<storage, net>>
    /\ UNCHANGED <<audioSrc, audio>>

\* a catch block that sends the request again by itself
FetchReject_Retry(p) ==
    /\ inflight[p] > 0
    /\ net.sent < MaxRequests
    /\ net' = [net EXCEPT !.sent = @ + 1]
    /\ UNCHANGED <<storage, audioSrc, page, audio, inflight>>

\* fetch rejects: the catch block
FetchReject(p) ==
    /\ inflight[p] > 0
    /\ inflight' = [inflight EXCEPT ![p] = @ - 1]
    /\ page' = [page EXCEPT ![p] = Catch(page[p])]
    /\ UNCHANGED <<storage, audioSrc, audio, net>>

\* the setTimeout callback
TimerFire(p) ==
    /\ page[p].phase = "ready"
    /\ page[p].timer
    /\ page' = [page EXCEPT ![p] = [lockForm(page[p]) EXCEPT !.timer = FALSE]]
    /\ UNCHANGED <<storage, audioSrc, audio, inflight, net>>

\* an audio element that has a src and so has the two listeners
Listening(p, a) ==
    /\ page[p].phase = "ready"
    /\ audioSrc[a] /= NoSrc

\* the user starts playback
Play(p, a) ==
    /\ Listening(p, a)
    /\ audio[p][a].paused
    /\ UNCHANGED <<page, inflight, net, audioSrc, storage>>
    /\ audio' = [audio EXCEPT ![p][a].paused = FALSE]

\* the user pauses playback
Pause(p, a) ==
    /\ Listening(p, a)
    /\ ~audio[p][a].paused
    /\ UNCHANGED <<page, inflight, net, audioSrc, storage>>
    /\ audio' = [audio EXCEPT ![p][a].paused = TRUE]

\* a timeupdate listener without the test of audio.paused
TimeUpdate_AlwaysWrite(p, a, t) ==
    /\ Listening(p, a)
    /\ UNCHANGED <<page, inflight, net, audioSrc>>
    /\ audio' = [audio EXCEPT ![p][a].currentTime = t]
    /\ storage' = SetItem(storage, StorageKey(audioSrc[a]), NumToString(t))

\* the timeupdate listener, the media position having become t
TimeUpdate(p, a, t) ==
    /\ Listening(p, a)
    /\ UNCHANGED <<page, inflight, net, audioSrc>>
    /\ audio' = [audio EXCEPT ![p][a].currentTime = t]
    /\ storage' = IF ~audio[p][a].paused
                  THEN SetItem(storage, StorageKey(audioSrc[a]), NumToString(t))
                  ELSE storage

\* the ended listener; engines differ on whether paused is set by then
Ended(p, a, nowPaused) ==
    /\ Listening(p, a)
    /\ ~audio[p][a].paused
    /\ UNCHANGED <<page, inflight, net, audioSrc>>
    /\ audio' = [audio EXCEPT ![p][a].paused = nowPaused]
    /\ storage' = RemoveItem(storage, StorageKey(audioSrc[a]))

Next ==
    \/ \E p \in Pages : Load(p)
    \/ \E p \in Pages : Unload(p)
    \/ \E p \in Pages, f \in FormInputs : Submit(p, f)
    \/ \E p \in Pages, type \in ResponseTypes : FetchResolve(p, type)
    \/ \E p \in Pages : FetchReject(p)
    \/ \E p \in Pages : TimerFire(p)
    \/ \E p \in Pages, a \in Audios : Play(p, a)
    \/ \E p \in Pages, a \in Audios : Pause(p, a)
    \/ \E p \in Pages, a \in Audios, t \in Times : TimeUpdate(p, a, t)
    \/ \E p \in Pages, a \in Audios, nowPaused \in BOOLEAN : Ended(p, a, nowPaused)

Spec == Init /\ [][Next]_vars

\* a timeout that is set fires, and a document being loaded gets its
\* DOMContentLoaded event
FairSpec ==
    /\ Spec
    /\ \A p \in Pages : WF_vars(TimerFire(p)) /\ WF_vars(Load(p))

(* ------------------------------ claims -------------------------------- *)
\* the completed flag is in storage
Completed == CompletedKey \in DOMAIN storage

\* page p makes a fetch call in this step
SentBy(p) == inflight'[p] > inflight[p]

\* C1: once a submission has succeeded and the completed flag is stored, the
\* page that succeeded sends no further request, and neither does any
\* document loaded after the flag was stored.
C1_NoRequestAfterSuccess ==
    [][\A p \in Pages :
         (page[p].succeeded \/ page[p].loadedWithFlag) => ~SentBy(p)]_vars

\* a page has succeeded, has been reloaded, and the new document is ready
C1_Witness ==
    \E p \in Pages :
        /\ page[p].phase = "ready"
        /\ page[p].loadedWithFlag
        /\ net.opaque >= 1
        /\ net.sent < MaxRequests

\* C2: with two pages open on the same localStorage, at most one request in
\* total is sent successfully.
C2_AtMostOneSuccess == net.opaque <= 1

\* the identifier stored under music_survey_user_uuid, Null when there is none
StoredUuid == GetItem(storage, UuidKey)

\* C3: once an identifier is stored no step changes or removes it, every
\* later getOrCreateUUID returns it, and every request sent carries it.
C3_StableIdentifier ==
    /\ [](Truthy(StoredUuid) =>
            /\ \A rs \in RandomStreams : getOrCreateUUID(storage, rs)[1] = StoredUuid
            /\ net.uuids \subseteq {StoredUuid})
    /\ [](net.sent > 0 => Truthy(StoredUuid))
    /\ [][Truthy(StoredUuid) => StoredUuid' = StoredUuid]_vars

\* a second request has been sent after a first one failed, and a
\* submission has succeeded (so clearSurveyStorage has run)
C3_Witness ==
    /\ net.sent = 2
    /\ net.opaque = 1
    /\ Truthy(StoredUuid)
    /\ \E p \in Pages : page[p].phase = "ready" /\ page[p].loadedWithFlag

\* the form passes both validations
FormOk(f) == f.soft /= {} /\ f.intense /= {} /\ f.valid

\* C4: a submit event whose form fails either validation sends no request,
\* creates no identifier, changes no storage key and leaves the submit
\* button enabled; so a request is sent only for a form that passes both.
C4_ValidationGate ==
    [][\A p \in Pages :
         \/ ~CanSubmit(p)
         \/ /\ UNCHANGED <<storage, inflight, net>>
            /\ ~page'[p].btnDisabled
         \/ \A f \in FormInputs : ~(~FormOk(f) /\ Submit(p, f))]_vars

\* a submit event has just failed a validation on a page that is still
\* free to submit, and no request has been sent
C4_Witness ==
    \E p \in Pages :
        /\ page[p].status \in {MsgSoft, MsgIntense, MsgRequired}
        /\ CanSubmit(p)
        /\ net.sent = 0
        /\ ~Truthy(StoredUuid)

\* a settlement of a fetch of page p that is not an opaque response
FailedAttempt(p) ==
    \/ FetchReject(p)
    \/ \E type \in ResponseTypes \ {"opaque"} : FetchResolve(p, type)

\* C5: the completed flag is 'true' in storage only if some request resolved
\* opaque; a rejected or non-opaque fetch leaves the flag as it was; once
\* set the flag is never cleared or changed.
C5_CompletedFlag ==
    /\ [](Completed => storage[CompletedKey] = TrueStr /\ net.opaque >= 1)
    /\ [][\A p \in Pages : FailedAttempt(p) =>
              GetItem(storage', CompletedKey) = GetItem(storage, CompletedKey)]_vars
    /\ [][Completed => GetItem(storage', CompletedKey) = GetItem(storage, CompletedKey)]_vars

\* the flag is set while another page has had a failed attempt
C5_Witness ==
    /\ Completed
    /\ \E p \in Pages : page[p].status = MsgFailed

\* C6: after a successful submission the form is eventually locked, the
\* delayed lockForm call locking it; a document loaded with the completed
\* flag set is locked and shows the 'already completed' status; a locked
\* form is never re-enabled, and a reload finds the flag and locks it again.
C6_LockedOnSuccess ==
    /\ \A p \in Pages : page[p].succeeded ~> Locked(p)
    /\ [][\A p \in Pages : TimerFire(p) => Locked(p)']_vars
    /\ [](\A p \in Pages :
            (page[p].phase = "ready" /\ page[p].loadedWithFlag) =>
                Locked(p) /\ page[p].status = MsgCompleted)
    /\ [](\A p \in Pages : Locked(p) => Completed)
    /\ [][\A p \in Pages :
            Locked(p) => (Locked(p)' \/ page'[p].phase = "loading")]_vars

\* the timeout of a page that succeeded has fired and locked the form
C6_Witness ==
    \E p \in Pages : page[p].succeeded /\ ~page[p].timer /\ Locked(p)

\* C7: the program never resends by itself: a step that sends a request
\* is one submit event whose form passed validation, and it sends one.
C7_NoRetry ==
    [][(net'.sent /= net.sent \/ \E p \in Pages : SentBy(p)) =>
          /\ net'.sent = net.sent + 1
          /\ \E p \in Pages, f \in FormInputs :
                /\ inflight' = [inflight EXCEPT ![p] = @ + 1]
                /\ FormOk(f)
                /\ Submit(p, f)]_vars

\* an attempt has failed, nothing is in flight, and the user has sent
\* no new submit event yet
C7_Witness ==
    \E p \in Pages :
        /\ page[p].status = MsgFailed
        /\ inflight[p] = 0
        /\ net.sent = 1

\* the audio-progress keys in storage, and what they hold
AudioKeys(st) == {k \in DOMAIN st : StartsWith(k, AudioPrefix)}
AudioPart(st) == [k \in AudioKeys(st) |-> st[k]]
OtherPart(st) == [k \in (DOMAIN st) \ (AudioKeys(st) \cup {CompletedKey}) |-> st[k]]

\* a step of an audio listener or of the audio controls
AudioStep ==
    \E p \in Pages, a \in Audios :
        \/ Play(p, a)
        \/ Pause(p, a)
        \/ \E t \in Times : TimeUpdate(p, a, t)
        \/ \E nowPaused \in BOOLEAN : Ended(p, a, nowPaused)

\* the audio helper leaves the identifier, the flag, the network and the
\* form alone, and the load of a page locks the form by the flag alone.
\* Each implication A => B is written B \/ ~A, with the tests that settle
\* most steps first: a step that leaves storage as it was leaves its keys
\* as they were, and an audio step changes audio or storage.
AudioFrame ==
    /\ \/ storage' = storage
       \/ /\ StoredUuid' = StoredUuid
          /\ GetItem(storage', CompletedKey) = GetItem(storage, CompletedKey)
       \/ ~AudioStep
    /\ \/ UNCHANGED <<page, inflight, net>>
       \/ UNCHANGED <<audio, storage>>
       \/ ~AudioStep
    /\ \A p \in Pages :
          \/ ~Load(p)
          \/ /\ UNCHANGED <<storage, inflight, net>>
             /\ Locked(p)' <=> Completed

\* a step of the submission flow that is not a successful settlement
QuietSubmissionStep(p) ==
    \/ CanSubmit(p) /\ \E f \in FormInputs : Submit(p, f)
    \/ FailedAttempt(p)
    \/ TimerFire(p)

\* the audio-progress keys hold in the next state what they hold now
AudioPartKept == storage' = storage \/ AudioPart(storage') = AudioPart(storage)

C9_PerMediaFile ==
    [][\A p \in Pages, a \in Audios, b \in Audios :
         ( /\ audioSrc[a] /= NoSrc
           /\ audioSrc[b] /= NoSrc
           /\ audioSrc[b] /= audioSrc[a]
           /\ \/ \E t \in Times : TimeUpdate(p, a, t)
              \/ \E nowPaused \in BOOLEAN : Ended(p, a, nowPaused) )
         => GetItem(storage', StorageKey(audioSrc[b]))
              = GetItem(storage, StorageKey(audioSrc[b]))]_vars

\* C10: a page has at most one request in flight, and its submit button
\* is disabled for as long as the request is pending.
C10_OneInFlight ==
    \A p \in Pages :
        /\ inflight[p] <= 1
        /\ inflight[p] > 0 => page[p].btnDisabled

\* a second attempt is pending after the first one failed
C10_Witness ==
    \E p \in Pages :
        /\ inflight[p] = 1
        /\ net.sent = 2
        /\ page[p].btnText = LabelProcessing
        /\ net.opaque = 0

IsAudioKey(k) ==
    /\ Len(k) >= 2
    /\ k[1] = "music_survey_"
    /\ k[2] = "audio_"

\* C12: clearSurveyStorage removes exactly the keys that start with
\* music_survey_audio_ and leaves every other key with its value: the
\* identifier, the completed flag and the keys of other applications.
C12_ClearExact ==
    LET cleared == clearSurveyStorage(storage) IN
    /\ DOMAIN cleared = {k \in DOMAIN storage : ~IsAudioKey(k)}
    /\ \A k \in DOMAIN cleared : cleared[k] = storage[k]
    /\ GetItem(cleared, UuidKey) = StoredUuid
    /\ GetItem(cleared, CompletedKey) = GetItem(storage, CompletedKey)
    /\ ForeignKeys \subseteq DOMAIN cleared

\* clearSurveyStorage has just run in a successful submission of one tab
\* while the other tab keeps writing: storage holds an audio position, the
\* identifier, the flag and the keys of other applications
C12_Witness ==
    /\ net.opaque >= 1
    /\ \E k \in DOMAIN storage : IsAudioKey(k)
    /\ {UuidKey, CompletedKey} \cup ForeignKeys \subseteq DOMAIN storage
    /\ clearSurveyStorage(storage) /= storage

\* C13: in every state reached after the completed flag has been set, no
\* key starting with music_survey_audio_ is in storage, also when an audio
\* element keeps playing after the submission has succeeded.
C13_NoProgressAfterCompletion ==
    Completed => \A k \in DOMAIN storage : ~IsAudioKey(k)

\* a playing timeupdate of some audio element writes value v under key k
PlayingTimeUpdateWrites(k, v) ==
    \E p \in Pages, a \in Audios, t \in Times :
        /\ audioSrc[a] /= NoSrc
        /\ StorageKey(audioSrc[a]) = k
        /\ NumToString(t) = v
        /\ ~audio[p][a].paused
        /\ TimeUpdate(p, a, t)

\* C14: a position is written only by a timeupdate fired while the audio
\* is not paused; an ended event removes the stored position of its file;
\* so the position stays away until a playing timeupdate writes it, and a
\* page load that finds no stored position does not seek that audio.
C14_ProgressLifecycle ==
    [][/\ \/ storage' = storage
          \/ \A k \in DOMAIN storage' :
                \/ ~IsAudioKey(k)
                \/ k \in DOMAIN storage /\ storage'[k] = storage[k]
                \/ PlayingTimeUpdateWrites(k, storage'[k])
       /\ \A p \in Pages, a \in Audios :
             \/ audioSrc[a] = NoSrc
             \/ StorageKey(audioSrc[a]) \notin DOMAIN storage'
             \/ \A nowPaused \in BOOLEAN : ~Ended(p, a, nowPaused)
       /\ \A p \in Pages :
             \/ ~Load(p)
             \/ \A a \in Audios :
                   \/ audioSrc[a] = NoSrc
                   \/ StorageKey(audioSrc[a]) \in DOMAIN storage
                   \/ audio'[p][a] = FreshAudio[a]]_vars

\* no submission has succeeded; one tab plays its audio past the start
\* with no position in storage, and the other tab, loaded on that storage,
\* sits unsought at the start
C14_Witness ==
    \E p \in Pages, q \in Pages, a \in Audios :
        /\ p /= q
        /\ audioSrc[a] /= NoSrc
        /\ net.opaque = 0
        /\ StorageKey(audioSrc[a]) \notin DOMAIN storage
        /\ ~audio[p][a].paused /\ audio[p][a].currentTime > 0
        /\ page[q].phase = "ready"
        /\ audio[q][a] = FreshAudio[a]

(* ----------------------- identifier generation ------------------------ *)
\* the random streams of the identifier check: the draw of the y position
\* takes every value, the draws of the x positions run through the values
UuidStreams ==
    { [i \in 1..Len(Template) |->
          IF Template[i] = "y" THEN vy ELSE (vx + i * k) % 16] :
      vx \in 0..15, vy \in 0..15, k \in {0, 3} }

\* line 59: the submit handler calls getOrCreateUUID
CallGetOrCreateUUID(rs) ==
    /\ storage' = getOrCreateUUID(storage, rs)[2]
    /\ net' = [net EXCEPT !.uuids = @ \cup {getOrCreateUUID(storage, rs)[1]}]
    /\ UNCHANGED <<audioSrc, page, audio, inflight>>

UuidNext == \E rs \in UuidStreams : CallGetOrCreateUUID(rs)

\* the calls of getOrCreateUUID alone, over UuidStreams
UuidSpec == Init /\ [][UuidNext]_vars

HexDigits ==
    {"0","1","2","3","4","5","6","7","8","9","a","b","c","d","e","f"}

\* the shape 8-4-4-4-12 of a version 4 UUID
IsUuidV4(u) ==
    /\ Len(u) = 36
    /\ \A i \in 1..36 :
          IF i \in {9, 14, 19, 24} THEN u[i] = "-" ELSE u[i] \in HexDigits
    /\ u[15] = "4"
    /\ u[20] \in {"8", "9", "a", "b"}

\* C15: every identifier getOrCreateUUID generates has the version 4 shape
\* whatever the random values, and it is not empty: the next call finds it
\* and returns it without a new one being stored.
C15_UuidShape ==
    /\ \A u \in net.uuids : IsUuidV4(u) /\ Truthy(u)
    /\ net.uuids /= {} =>
          /\ net.uuids = {StoredUuid}
          /\ \A rs \in UuidStreams :
                getOrCreateUUID(storage, rs) = <<StoredUuid, storage>>

\* an identifier has been generated from draws that give the fourth group
\* the first digit b and the x positions the digit f
C15_Witness ==
    /\ net.uuids /= {}
    /\ StoredUuid[20] = "b"
    /\ StoredUuid[1] = "f"
    /\ StoredUuid[36] = "f"

====
